---- MODULE Spec2Model ----
(***************************************************************************)
(* The reader of impls/aburd-rust: lexer, token classifier, recursive      *)
(* descent Reader and printer (src/lib/read.rs, src/lib/mod.rs), and the   *)
(* read-print loop that drives them (src/bin/step1_read_print.rs).         *)
(*                                                                         *)
(* A character is a one-character string and a text (a Rust &str/String)   *)
(* is a sequence of characters.  Positions in the source are 0-based; the  *)
(* sequences here are 1-based, so the token at cursor pos is tokens[pos+1].*)
(***************************************************************************)
EXTENDS Integers, Sequences, FiniteSets, TLC

VARIABLES
    pc,        \* where the read-print loop / the read_str call stands
    line,      \* the text handed to read_str
    result,    \* what read_str returned (NoResult while it has not)
    stdout,    \* what the loop printed for this line
    tokens,    \* Reader.tokens
    pos,       \* Reader.pos
    stack,     \* the Reader's call stack, innermost frame last
    ret,       \* the value the innermost finished call returned
    peeked     \* history: the cursor values at which peek was called, in order

vars == <<pc, line, result, stdout, tokens, pos, stack, ret, peeked>>

-----------------------------------------------------------------------------
(* Bounds of the model *)

\* longest text over Alphabet fed to the read-print loop
MaxLen == 3
\* longest token sequence handed to the stepwise Reader
MaxTokens == 5

-----------------------------------------------------------------------------
(* Characters *)

\* char::is_whitespace / regex \s, as far as the inputs use them
Whitespace == {" ", "\n", "\t", "\r"}

\* char::is_digit(10)
DigitChars == <<"0", "1", "2", "3", "4", "5", "6", "7", "8", "9">>

IsDigit(c) == \E i \in 1..10 : DigitChars[i] = c

DigitValue(c) == (CHOOSE i \in 1..10 : DigitChars[i] = c) - 1

\* usize::MAX on a 64-bit target, 18446744073709551615, most significant digit first
UsizeMax == <<1, 8, 4, 4, 6, 7, 4, 4, 0, 7, 3, 7, 0, 9, 5, 5, 1, 6, 1, 5>>

-----------------------------------------------------------------------------
(* Results *)

Ok(v) == [ok |-> "Ok", v |-> v]

Err(e, s) == [ok |-> "Err", e |-> e, s |-> s]

UnterminatedList == Err("UnterminatedList", <<>>)

\* a panic unwinds out of read_str: no value is returned
Panic == [ok |-> "Panic"]

NoResult == [ok |-> "None"]

-----------------------------------------------------------------------------
(* Value model: MalDataType and MalToken *)

Nil == [type |-> "Nil"]

Boolean(b) == [type |-> "Boolean", b |-> b]

\* n is a natural number held as its decimal digits, most significant first,
\* without leading zeros (0 is <<0>>); MalDataType::Int, a name Integers takes
MalInt(n) == [type |-> "Int", n |-> n]

String(s) == [type |-> "String", s |-> s]

Keyword(s) == [type |-> "Keyword", s |-> s]

Symbol(s) == [type |-> "Symbol", s |-> s]

Vector(ts) == [type |-> "Vector", tokens |-> ts]

List(ts) == [type |-> "List", tokens |-> ts]

OpenParen == [t |-> "OpenParen"]

CloseParen == [t |-> "CloseParen"]

OpenBracket == [t |-> "OpenBracket"]

CloseBracket == [t |-> "CloseBracket"]

Data(d) == [t |-> "Data", d |-> d]

IsData(tok) == tok.t = "Data"

IsContainer(d) == d.type \in {"List", "Vector"}

-----------------------------------------------------------------------------
(* Lexer: one regex, iterated over the trimmed text *)

RECURSIVE TrimStart(_)
TrimStart(s) ==
    IF s # <<>> /\ Head(s) \in Whitespace THEN TrimStart(Tail(s)) ELSE s

RECURSIVE TrimEnd(_)
TrimEnd(s) ==
    IF s # <<>> /\ s[Len(s)] \in Whitespace
    THEN TrimEnd(SubSeq(s, 1, Len(s) - 1))
    ELSE s

\* str::trim
Trim(s) == TrimEnd(TrimStart(s))

\* [\s,]* : the position of the first character at or after p that is neither
\* whitespace nor a comma
RECURSIVE SkipSeparators(_, _)
SkipSeparators(s, p) ==
    IF p <= Len(s) /\ s[p] \in Whitespace \cup {","}
    THEN SkipSeparators(s, p + 1)
    ELSE p

\* the backquote character, which a TLA+ string cannot hold
Backquote == "backquote"

\* the class of single punctuation characters: [ ] { } ( ) ' backquote ~ ^ @
SpecialChars == {"[", "]", "{", "}", "(", ")", "'", Backquote, "~", "^", "@"}

\* the characters the last alternative's negated class leaves out:
\* whitespace [ ] { } ( ' " backquote , ; )
NonRunChars ==
    Whitespace \cup {"[", "]", "{", "}", "(", "'", "\"", Backquote, ",", ";", ")"}

\* (?:\\.|[^\\"])* from q on: an escape pair (. matches all but a line feed)
\* is tried before a plain character; returns the position after the last
\* repetition
RECURSIVE StringBodyEnd(_, _)
StringBodyEnd(s, q) ==
    IF q > Len(s) THEN q
    ELSE IF s[q] = "\\"
         THEN IF q + 1 <= Len(s) /\ s[q + 1] # "\n"
              THEN StringBodyEnd(s, q + 2)
              ELSE q
    ELSE IF s[q] = "\"" THEN q
    ELSE StringBodyEnd(s, q + 1)

\* "(?:\\.|[^\\"])*"? with the opening quote at q: the closing quote is optional
StringEnd(s, q) ==
    LET b == StringBodyEnd(s, q + 1)
    IN  IF b <= Len(s) /\ s[b] = "\"" THEN b + 1 ELSE b

\* ;.* with the semicolon at q: up to, not including, the next line feed
RECURSIVE CommentEnd(_, _)
CommentEnd(s, q) ==
    IF q <= Len(s) /\ s[q] # "\n" THEN CommentEnd(s, q + 1) ELSE q

\* the last alternative, a maximal run of other characters, from q on
RECURSIVE RunEnd(_, _)
RunEnd(s, q) ==
    IF q <= Len(s) /\ s[q] \notin NonRunChars THEN RunEnd(s, q + 1) ELSE q

\* the capture group at q, first alternative that matches: the position after it
CaptureEnd(s, q) ==
    IF q > Len(s) THEN q
    ELSE IF s[q] = "~" /\ q + 1 <= Len(s) /\ s[q + 1] = "@" THEN q + 2
    ELSE IF s[q] \in SpecialChars THEN q + 1
    ELSE IF s[q] = "\"" THEN StringEnd(s, q)
    ELSE IF s[q] = ";" THEN CommentEnd(s, q)
    ELSE RunEnd(s, q)

\* captures_iter from p on, empty captures filtered out; after an empty match
\* the iterator moves on by one character
RECURSIVE Captures(_, _)
Captures(s, p) ==
    IF p > Len(s) THEN <<>>
    ELSE LET q == SkipSeparators(s, p)
             e == CaptureEnd(s, q)
             rest == Captures(s, IF e = p THEN p + 1 ELSE e)
         IN  IF e = q THEN rest ELSE <<SubSeq(s, q, e - 1)>> \o rest

\* fn lexer; the regex is a valid constant, so LexingFailure never happens
lexer(s) == Captures(Trim(s), 1)

-----------------------------------------------------------------------------
(* Token classifier: MalToken::from_str *)

starts_with(s, prefix) ==
    Len(s) >= Len(prefix) /\ SubSeq(s, 1, Len(prefix)) = prefix

ends_with(s, suffix) ==
    Len(s) >= Len(suffix) /\ SubSeq(s, Len(s) - Len(suffix) + 1, Len(s)) = suffix

contains(s, c) == \E i \in 1..Len(s) : s[i] = c

AllDigits(s) == \A i \in 1..Len(s) : IsDigit(s[i])

\* the digits without their leading zeros
RECURSIVE StripZeros(_)
StripZeros(ds) ==
    IF Len(ds) > 1 /\ Head(ds) = 0 THEN StripZeros(Tail(ds)) ELSE ds

\* a > b for two digit sequences without leading zeros
RECURSIVE DigitsGreater(_, _)
DigitsGreater(a, b) ==
    IF Len(a) # Len(b) THEN Len(a) > Len(b)
    ELSE IF a = <<>> THEN FALSE
    ELSE IF Head(a) # Head(b) THEN Head(a) > Head(b)
    ELSE DigitsGreater(Tail(a), Tail(b))

\* str::parse::<usize>: Err on the empty string and on a value above usize::MAX
parse_usize(s) ==
    LET n == StripZeros([i \in 1..Len(s) |-> DigitValue(s[i])])
    IN  IF s = <<>> \/ DigitsGreater(n, UsizeMax)
        THEN [ok |-> FALSE]
        ELSE [ok |-> TRUE, n |-> n]

\* the Int arm: parse::<usize>().unwrap() panics on Err
IntArm(s) ==
    LET r == parse_usize(s)
    IN  IF r.ok THEN Ok(Data(MalInt(r.n))) ELSE Panic

\* the Keyword arm
KeywordArm(s) ==
    IF starts_with(s, <<":", ":">>)
    THEN Err("IllegalToken", s)
    ELSE Ok(Data(Keyword(s)))

\* the String arm
StringArm(s) ==
    IF Len(s) < 2 \/ ~ends_with(s, <<"\"">>)
    THEN Err("IllegalString", s)
    ELSE Ok(Data(String(s)))

\* a bug: the test of the first character is missing
SymbolArm_NoDigitCheck(s) ==
    IF contains(s, "\"") THEN Err("IllegalSymbol", s)
    ELSE IF s = <<>> THEN Panic
    ELSE Ok(Data(Symbol(s)))

\* the default arm; chars().next().unwrap() panics on the empty string
SymbolArm(s) ==
    IF contains(s, "\"") THEN Err("IllegalSymbol", s)
    ELSE IF s = <<>> THEN Panic
    ELSE IF IsDigit(Head(s)) THEN Err("IllegalSymbol", s)
    ELSE Ok(Data(Symbol(s)))

from_str(s) ==
    IF s = <<"(">> THEN Ok(OpenParen)
    ELSE IF s = <<")">> THEN Ok(CloseParen)
    ELSE IF s = <<"[">> THEN Ok(OpenBracket)
    ELSE IF s = <<"]">> THEN Ok(CloseBracket)
    ELSE IF s = <<"n", "i", "l">> THEN Ok(Data(Nil))
    ELSE IF s = <<"t", "r", "u", "e">> THEN Ok(Data(Boolean(TRUE)))
    ELSE IF s = <<"f", "a", "l", "s", "e">> THEN Ok(Data(Boolean(FALSE)))
    ELSE IF starts_with(s, <<":">>) THEN KeywordArm(s)
    ELSE IF AllDigits(s) THEN IntArm(s)
    ELSE IF starts_with(s, <<"\"">>) THEN StringArm(s)
    ELSE SymbolArm(s)

\* fn tokenize: the first lexeme that fails to classify ends the loop
RECURSIVE tokenize_from(_, _)
tokenize_from(lexemes, acc) ==
    IF lexemes = <<>> THEN Ok(acc)
    ELSE LET r == from_str(Head(lexemes))
         IN  IF r.ok = "Ok"
             THEN tokenize_from(Tail(lexemes), Append(acc, r.v))
             ELSE r

tokenize(lexemes) == tokenize_from(lexemes, <<>>)

-----------------------------------------------------------------------------
(* Printer: MalDataType::to_string and MalToken::to_string *)

\* usize::to_string
usize_to_string(n) == [i \in 1..Len(n) |-> DigitChars[n[i] + 1]]

\* .filter(|s| !s.is_empty())
RECURSIVE FilterNonEmpty(_)
FilterNonEmpty(ss) ==
    IF ss = <<>> THEN <<>>
    ELSE IF Head(ss) = <<>> THEN FilterNonEmpty(Tail(ss))
    ELSE <<Head(ss)>> \o FilterNonEmpty(Tail(ss))

\* a bug: the separator is left out
RECURSIVE join_NoSeparator(_, _)
join_NoSeparator(ss, sep) ==
    IF ss = <<>> THEN <<>> ELSE Head(ss) \o join_NoSeparator(Tail(ss), sep)

\* [String]::join(sep)
RECURSIVE join(_, _)
join(ss, sep) ==
    IF ss = <<>> THEN <<>>
    ELSE IF Len(ss) = 1 THEN Head(ss)
    ELSE Head(ss) \o sep \o join(Tail(ss), sep)

\* a bug: the colon is stripped and not put back
KeywordToString_NoColon(s) == SubSeq(s, 2, Len(s))

\* the Keyword arm: format!(":{}", s[1..])
KeywordToString(s) == <<":">> \o SubSeq(s, 2, Len(s))

RECURSIVE data_to_string(_), token_to_string(_)
data_to_string(d) ==
    CASE d.type = "Keyword" -> KeywordToString(d.s)
      [] d.type = "Nil" -> <<"n", "i", "l">>
      [] d.type = "Boolean" ->
            IF d.b THEN <<"t", "r", "u", "e">> ELSE <<"f", "a", "l", "s", "e">>
      [] d.type = "Int" -> usize_to_string(d.n)
      [] d.type = "String" -> d.s
      [] d.type = "Symbol" -> d.s
      [] d.type = "Vector" ->
            <<"[">>
            \o join(FilterNonEmpty([i \in 1..Len(d.tokens) |->
                                       token_to_string(d.tokens[i])]), <<" ">>)
            \o <<"]">>
      [] d.type = "List" ->
            <<"(">>
            \o join(FilterNonEmpty([i \in 1..Len(d.tokens) |->
                                       token_to_string(d.tokens[i])]), <<" ">>)
            \o <<")">>

token_to_string(tok) ==
    CASE tok.t = "OpenParen" -> <<"(">>
      [] tok.t = "CloseParen" -> <<")">>
      [] tok.t = "OpenBracket" -> <<"[">>
      [] tok.t = "CloseBracket" -> <<"]">>
      [] tok.t = "Data" -> data_to_string(tok.d)

-----------------------------------------------------------------------------
(* Reader, as the functions the source writes.  A call returns the Result   *)
(* and the cursor it leaves behind.                                         *)

\* Reader::peek
peek(ts, p) == IF p < Len(ts) THEN Ok(ts[p + 1]) ELSE UnterminatedList

\* Reader::read_atom: a clone of the peeked token, the cursor stays
read_atom(ts, p) == [res |-> peek(ts, p), pos |-> p]

\* a bug: either closing bracket ends a list
IsListEnd_AnyCloser(tok) == tok \in {CloseParen, CloseBracket}

\* read_list's test of the token read_form returned
IsListEnd(tok) == tok = CloseParen

\* read_vector's test of the token read_form returned
IsVectorEnd(tok) == tok = CloseBracket

\* a bug: the token is put in front of the ones read before it
push_Front(acc, tok) == <<tok>> \o acc

\* Vec::push of the loops: tokens.push(token)
push(acc, tok) == Append(acc, tok)

RECURSIVE read_form(_, _), read_list(_, _, _), read_vector(_, _, _)
read_form(ts, p) ==
    LET token == peek(ts, p)
    IN  IF token.ok # "Ok" THEN [res |-> token, pos |-> p]
        ELSE IF token.v = OpenParen THEN read_list(ts, p + 1, <<>>)
        ELSE IF token.v = OpenBracket THEN read_vector(ts, p + 1, <<>>)
        ELSE read_atom(ts, p)

\* acc is the local vector "tokens" of the loop
read_list(ts, p, acc) ==
    LET r == read_form(ts, p)
    IN  IF r.res.ok # "Ok" THEN [res |-> UnterminatedList, pos |-> r.pos]
        ELSE IF IsListEnd(r.res.v) THEN [res |-> Ok(Data(List(acc))), pos |-> r.pos]
        ELSE read_list(ts, r.pos + 1, push(acc, r.res.v))

read_vector(ts, p, acc) ==
    LET r == read_form(ts, p)
    IN  IF r.res.ok # "Ok" THEN [res |-> UnterminatedList, pos |-> r.pos]
        ELSE IF IsVectorEnd(r.res.v) THEN [res |-> Ok(Data(Vector(acc))), pos |-> r.pos]
        ELSE read_vector(ts, r.pos + 1, push(acc, r.res.v))

\* a bug: an error of read_form is turned into the value nil
FormResult_NilOnError(r) ==
    IF r.ok # "Ok" THEN Ok(Nil)
    ELSE IF IsData(r.v) THEN Ok(r.v.d)
    ELSE UnterminatedList

\* the match that ends read_str: only a Data token is a value
FormResult(r) ==
    IF r.ok # "Ok" THEN r
    ELSE IF IsData(r.v) THEN Ok(r.v.d)
    ELSE UnterminatedList

\* fn read_str
read_str(s) ==
    LET toks == tokenize(lexer(s))
    IN  IF toks.ok # "Ok" THEN toks
        ELSE FormResult(read_form(toks.v, 0).res)

-----------------------------------------------------------------------------
(* Inputs *)

\* the characters the enumerated lines are made of
Alphabet == {"(", ")", "[", "]", " ", "\n", ",", "a", "1", ":", "\"", "\\", ";"}

RECURSIVE TextsOver(_, _)
TextsOver(chars, n) ==
    IF n = 0 THEN {<<>>}
    ELSE LET shorter == TextsOver(chars, n - 1)
         IN  shorter \cup {Append(t, c) : t \in {u \in shorter : Len(u) = n - 1}, c \in chars}

\* longer lines of interest: the repository's tests, the reserved words, integers
\* around usize::MAX, comments and escapes inside containers
ExtraInputs ==
    { <<" ", " ", "(", " ", " ", "+", " ", "2", " ", " ", " ", "(", " ", "*", " ", " ", "3",
        " ", " ", " ", "4", ")", " ", " ", " ", ")", " ", " ", " ">>,
      <<"(", "+", " ", "2", " ", "3", " ", "n", "i", "l", " ", "f", "a", "l", "s", "e", ")">>,
      <<" ", "(", " ", "+", " ", "2", " ", " ", " ", "3", " ", ")", " ", " ">>,
      <<"n", "i", "l">>, <<"t", "r", "u", "e">>, <<"f", "a", "l", "s", "e">>,
      <<"n", "i", "l", "s">>, <<"t", "r", "u">>,
      <<"[", "t", "r", "u", "e", ",", ",", "n", "i", "l", " ", ":", "k", "]">>,
      <<"(", "a", ",", ",", " ", "1", " ", " ", ":", "k", " ", ",", ")">>,
      <<"1", "8", "4", "4", "6", "7", "4", "4", "0", "7", "3", "7", "0", "9", "5", "5", "1", "6",
        "1", "5">>,
      <<"1", "8", "4", "4", "6", "7", "4", "4", "0", "7", "3", "7", "0", "9", "5", "5", "1", "6",
        "1", "6">>,
      <<"0", "0", "1", "8", "4", "4", "6", "7", "4", "4", "0", "7", "3", "7", "0", "9", "5", "5",
        "1", "6", "1", "5">>,
      <<"(", "9", "9", "9", "9", "9", "9", "9", "9", "9", "9", "9", "9", "9", "9", "9", "9", "9",
        "9", "9", "9", ")">>,
      <<"(", "0", "0", "7", " ", "[", "0", "]", ")">>,
      <<"(", ";", "\n", ")">>,
      <<"(", "a", " ", ";", "c", "\n", ")">>,
      <<"[", "a", "\n", "a", "]">>,
      <<";", "c", " ", "d", " ">>,
      <<"(", "\"", "a", "\\", "\"", "\\", "\n", ")">>,
      <<"(", "\"", "a", " ", "\\", "\"", "\"", "a", ")">>,
      <<"(", "a", "\"", "b", "\"", ":", "c", ")">>,
      <<"(", "~", "@", "a", " ", "~", " ", "@", "'", "a", ")">>,
      <<"(", "{", "}", "^", Backquote, ")">>,
      <<"(", "(", "a", ")", "[", "1", "]", ")", ")">>,
      <<"(", "[", "a", ")", "]", ")">>,
      <<"[", "(", "]", "a", ")", "]">> }

\* the lines the line editor may hand over
Inputs == TextsOver(Alphabet, MaxLen) \cup ExtraInputs

\* the tokens the enumerated token sequences are made of
TokenPool ==
    {OpenParen, CloseParen, OpenBracket, CloseBracket,
     Data(Symbol(<<"a">>)), Data(MalInt(<<1>>))}

\* a line whose lexemes classify to the tokens ts
LineOf(ts) == join([i \in 1..Len(ts) |-> token_to_string(ts[i])], <<" ">>)

-----------------------------------------------------------------------------
(* The read-print loop and the Reader, step by step *)

Frame(fn) == [fn |-> fn, acc |-> <<>>]

Top == stack[Len(stack)]

Pop == SubSeq(stack, 1, Len(stack) - 1)

ReplaceTop(f) == Append(Pop, f)

Init ==
    /\ pc = "readline"
    /\ line = <<>>
    /\ result = NoResult
    /\ stdout = <<>>
    /\ tokens = <<>>
    /\ pos = 0
    /\ stack = <<>>
    /\ ret = NoResult
    /\ peeked = <<>>

\* rl.readline returned Ok(line)
Readline ==
    /\ pc = "readline"
    /\ \E text \in Inputs : line' = text
    /\ pc' = "read_str"
    /\ UNCHANGED <<result, stdout, tokens, pos, stack, ret, peeked>>

\* rl.readline returned Interrupted, Eof or another error: break
Quit ==
    /\ pc = "readline"
    /\ pc' = "exit"
    /\ UNCHANGED <<line, result, stdout, tokens, pos, stack, ret, peeked>>

\* read_str up to Reader::new: lexer, tokenize, then the call of read_form
ReadStrEnter ==
    /\ pc = "read_str"
    /\ LET toks == tokenize(lexer(line))
       IN  CASE toks.ok = "Ok" ->
                  /\ tokens' = toks.v
                  /\ stack' = <<Frame("read_form")>>
                  /\ pc' = "reading"
                  /\ UNCHANGED result
             [] toks.ok = "Err" ->
                  /\ result' = toks
                  /\ pc' = "print"
                  /\ UNCHANGED <<tokens, stack>>
             [] toks.ok = "Panic" ->
                  /\ result' = Panic
                  /\ pc' = "panicked"
                  /\ UNCHANGED <<tokens, stack>>
    /\ UNCHANGED <<line, stdout, pos, ret, peeked>>

\* Reader::read_form: peek, then hand over to read_list, read_vector or
\* read_atom, whose result read_form returns as it is (the frame is replaced)
ReadForm ==
    /\ pc = "reading"
    /\ stack # <<>>
    /\ Top.fn = "read_form"
    /\ peeked' = Append(peeked, pos)
    /\ LET token == peek(tokens, pos)
       IN  IF token.ok # "Ok"
           THEN /\ ret' = token
                /\ stack' = Pop
                /\ UNCHANGED pos
           ELSE IF token.v = OpenParen
           THEN /\ pos' = pos + 1
                /\ stack' = ReplaceTop(Frame("read_list"))
                /\ UNCHANGED ret
           ELSE IF token.v = OpenBracket
           THEN /\ pos' = pos + 1
                /\ stack' = ReplaceTop(Frame("read_vector"))
                /\ UNCHANGED ret
           ELSE /\ stack' = ReplaceTop(Frame("read_atom"))
                /\ UNCHANGED <<pos, ret>>
    /\ UNCHANGED <<pc, line, result, stdout, tokens>>

\* a bug: read_atom advances the cursor, which its callers advance as well
ReadAtom_Advance ==
    /\ pc = "reading"
    /\ stack # <<>>
    /\ Top.fn = "read_atom"
    /\ peeked' = Append(peeked, pos)
    /\ ret' = peek(tokens, pos)
    /\ stack' = Pop
    /\ pos' = pos + 1
    /\ UNCHANGED <<pc, line, result, stdout, tokens>>

\* Reader::read_atom: peeks again and clones
ReadAtom ==
    /\ pc = "reading"
    /\ stack # <<>>
    /\ Top.fn = "read_atom"
    /\ peeked' = Append(peeked, pos)
    /\ ret' = peek(tokens, pos)
    /\ stack' = Pop
    /\ UNCHANGED <<pc, line, result, stdout, tokens, pos>>

\* the head of read_list's while loop: call read_form
ReadListCall ==
    /\ pc = "reading"
    /\ stack # <<>>
    /\ Top.fn = "read_list"
    /\ ret = NoResult
    /\ stack' = Append(stack, Frame("read_form"))
    /\ UNCHANGED <<pc, line, result, stdout, tokens, pos, ret, peeked>>

\* read_list after read_form returned: leave the loop, finish, or push and advance
ReadListStep ==
    /\ pc = "reading"
    /\ stack # <<>>
    /\ Top.fn = "read_list"
    /\ ret # NoResult
    /\ IF ret.ok # "Ok"
       THEN /\ ret' = UnterminatedList
            /\ stack' = Pop
            /\ UNCHANGED pos
       ELSE IF IsListEnd(ret.v)
       THEN /\ ret' = Ok(Data(List(Top.acc)))
            /\ stack' = Pop
            /\ UNCHANGED pos
       ELSE /\ stack' = ReplaceTop([Top EXCEPT !.acc = push(@, ret.v)])
            /\ pos' = pos + 1
            /\ ret' = NoResult
    /\ UNCHANGED <<pc, line, result, stdout, tokens, peeked>>

\* the head of read_vector's while loop: call read_form
ReadVectorCall ==
    /\ pc = "reading"
    /\ stack # <<>>
    /\ Top.fn = "read_vector"
    /\ ret = NoResult
    /\ stack' = Append(stack, Frame("read_form"))
    /\ UNCHANGED <<pc, line, result, stdout, tokens, pos, ret, peeked>>

\* read_vector after read_form returned
ReadVectorStep ==
    /\ pc = "reading"
    /\ stack # <<>>
    /\ Top.fn = "read_vector"
    /\ ret # NoResult
    /\ IF ret.ok # "Ok"
       THEN /\ ret' = UnterminatedList
            /\ stack' = Pop
            /\ UNCHANGED pos
       ELSE IF IsVectorEnd(ret.v)
       THEN /\ ret' = Ok(Data(Vector(Top.acc)))
            /\ stack' = Pop
            /\ UNCHANGED pos
       ELSE /\ stack' = ReplaceTop([Top EXCEPT !.acc = push(@, ret.v)])
            /\ pos' = pos + 1
            /\ ret' = NoResult
    /\ UNCHANGED <<pc, line, result, stdout, tokens, peeked>>

\* a bug: tokens left over after the form are an error
ReadStrFinish_Strict ==
    /\ pc = "reading"
    /\ stack = <<>>
    /\ ret # NoResult
    /\ result' = IF pos + 1 < Len(tokens) THEN UnterminatedList ELSE FormResult(ret)
    /\ pc' = "print"
    /\ UNCHANGED <<line, stdout, tokens, pos, stack, ret, peeked>>

\* read_str after read_form returned: the ? on an error, then the match
ReadStrFinish ==
    /\ pc = "reading"
    /\ stack = <<>>
    /\ ret # NoResult
    /\ result' = FormResult(ret)
    /\ pc' = "print"
    /\ UNCHANGED <<line, stdout, tokens, pos, stack, ret, peeked>>

\* the loop's match on what read_str returned: println! of the rendering, or
\* eprintln! of the error (nothing on stdout); the println! of lexemes and
\* tokens inside read_str are not part of stdout here
PrintResult ==
    /\ pc = "print"
    /\ stdout' = IF result.ok = "Ok" THEN data_to_string(result.v) ELSE <<>>
    /\ pc' = "printed"
    /\ UNCHANGED <<line, result, tokens, pos, stack, ret, peeked>>

\* the end of the loop body: the line, the Reader and the result are dropped
\* (stdout holds what was printed for one line only)
NextIteration ==
    /\ pc = "printed"
    /\ pc' = "readline"
    /\ line' = <<>>
    /\ result' = NoResult
    /\ stdout' = <<>>
    /\ tokens' = <<>>
    /\ pos' = 0
    /\ stack' = <<>>
    /\ ret' = NoResult
    /\ peeked' = <<>>

ReaderStep ==
    \/ ReadForm
    \/ ReadAtom
    \/ ReadListCall
    \/ ReadListStep
    \/ ReadVectorCall
    \/ ReadVectorStep
    \/ ReadStrFinish

Next ==
    \/ Readline
    \/ Quit
    \/ ReadStrEnter
    \/ ReaderStep
    \/ PrintResult
    \/ NextIteration

\* the read-print loop over the lines of Inputs
Spec == Init /\ [][Next]_vars

\* the state right after Reader::new(tokens) in read_str, for the lines whose
\* lexemes classify to the token sequences over TokenPool
InitReader ==
    /\ pc = "reading"
    /\ \E n \in 0..MaxTokens : tokens \in [1..n -> TokenPool]
    /\ line = LineOf(tokens)
    /\ result = NoResult
    /\ stdout = <<>>
    /\ pos = 0
    /\ stack = <<Frame("read_form")>>
    /\ ret = NoResult
    /\ peeked = <<>>

\* one read_str call, from Reader::new to its return
SpecReader == InitReader /\ [][ReaderStep]_vars

\* the same call, run to its end: the code is synchronous and single-threaded,
\* so a call that can take a step takes it
SpecReaderFair == SpecReader /\ WF_vars(ReaderStep)

-----------------------------------------------------------------------------
(* Vocabulary of the properties *)

\* every token kept inside d, at any depth, is a Data token
RECURSIVE AllData(_)
AllData(d) ==
    IsContainer(d) =>
        \A i \in 1..Len(d.tokens) : IsData(d.tokens[i]) /\ AllData(d.tokens[i].d)

\* the token sequence a value was read from: a container is its opener, its
\* children in order, its closer; anything else is the one token
RECURSIVE Flatten(_), FlattenAll(_)
Flatten(tok) ==
    IF IsData(tok) /\ IsContainer(tok.d)
    THEN <<IF tok.d.type = "List" THEN OpenParen ELSE OpenBracket>>
         \o FlattenAll(tok.d.tokens)
         \o <<IF tok.d.type = "List" THEN CloseParen ELSE CloseBracket>>
    ELSE <<tok>>

FlattenAll(ts) == IF ts = <<>> THEN <<>> ELSE Flatten(Head(ts)) \o FlattenAll(Tail(ts))

\* from token i on, ts closes the containers whose closers expect lists
\* (innermost last), each with the closer of its own type, the last one with the
\* last token of ts
RECURSIVE ClosesAll(_, _, _)
ClosesAll(ts, i, expect) ==
    IF expect = <<>> THEN i = Len(ts) + 1
    ELSE IF i > Len(ts) THEN FALSE
    ELSE IF ts[i] = OpenParen THEN ClosesAll(ts, i + 1, Append(expect, CloseParen))
    ELSE IF ts[i] = OpenBracket THEN ClosesAll(ts, i + 1, Append(expect, CloseBracket))
    ELSE IF ts[i] \in {CloseParen, CloseBracket}
         THEN /\ ts[i] = expect[Len(expect)]
              /\ ClosesAll(ts, i + 1, SubSeq(expect, 1, Len(expect) - 1))
    ELSE ClosesAll(ts, i + 1, expect)

\* ts is one properly nested container, closers matching their openers in type
ProperlyNested(ts) ==
    /\ Len(ts) >= 2
    /\ ts[1] \in {OpenParen, OpenBracket}
    /\ ClosesAll(ts, 2, <<IF ts[1] = OpenParen THEN CloseParen ELSE CloseBracket>>)

\* the texts of rs with exactly one space between neighbours, nothing left out
RECURSIVE SpaceSeparated(_)
SpaceSeparated(rs) ==
    IF rs = <<>> THEN <<>>
    ELSE IF Len(rs) = 1 THEN rs[1]
    ELSE SpaceSeparated(SubSeq(rs, 1, Len(rs) - 1)) \o <<" ">> \o rs[Len(rs)]

\* d and every container inside it render as opener, children one space
\* apart, closer; no child renders as the empty text
RECURSIVE RendersAll(_)
RendersAll(d) ==
    IsContainer(d) =>
        LET rs == [i \in 1..Len(d.tokens) |-> token_to_string(d.tokens[i])]
            open == IF d.type = "List" THEN "(" ELSE "["
            close == IF d.type = "List" THEN ")" ELSE "]"
        IN  /\ data_to_string(d) = <<open>> \o SpaceSeparated(rs) \o <<close>>
            /\ \A i \in 1..Len(rs) : rs[i] # <<>>
            /\ \A i \in 1..Len(d.tokens) : IsData(d.tokens[i]) => RendersAll(d.tokens[i].d)

\* the decimal text of l without its leading zeros
RECURSIVE StripZeroChars(_)
StripZeroChars(l) ==
    IF Len(l) > 1 /\ Head(l) = "0" THEN StripZeroChars(Tail(l)) ELSE l

\* the lexeme l classifies as the dispatch rules say
Dispatched(l) ==
    LET r == from_str(l)
        structural == l \in {<<"(">>, <<")">>, <<"[">>, <<"]">>}
        reserved == l \in {<<"n", "i", "l">>, <<"t", "r", "u", "e">>, <<"f", "a", "l", "s", "e">>}
        exact == structural \/ reserved
        colon == ~exact /\ l[1] = ":"
        digits == ~exact /\ ~colon /\ \A i \in 1..Len(l) : IsDigit(l[i])
        quoted == ~exact /\ ~colon /\ ~digits /\ l[1] = "\""
        other == ~exact /\ ~colon /\ ~digits /\ ~quoted
    IN  /\ l = <<"(">> => r = Ok(OpenParen)
        /\ l = <<")">> => r = Ok(CloseParen)
        /\ l = <<"[">> => r = Ok(OpenBracket)
        /\ l = <<"]">> => r = Ok(CloseBracket)
        /\ l = <<"n", "i", "l">> => r = Ok(Data(Nil))
        /\ l = <<"t", "r", "u", "e">> => r = Ok(Data(Boolean(TRUE)))
        /\ l = <<"f", "a", "l", "s", "e">> => r = Ok(Data(Boolean(FALSE)))
        /\ colon =>
              IF Len(l) >= 2 /\ l[2] = ":"
              THEN r = Err("IllegalToken", l)
              ELSE r = Ok(Data(Keyword(l)))
        /\ digits =>
              /\ r.ok = "Ok"
              /\ IsData(r.v)
              /\ r.v.d.type = "Int"
              /\ usize_to_string(r.v.d.n) = StripZeroChars(l)
        /\ quoted =>
              IF Len(l) >= 2 /\ l[Len(l)] = "\""
              THEN r = Ok(Data(String(l)))
              ELSE r = Err("IllegalString", l)
        /\ other =>
              IF (\E i \in 1..Len(l) : l[i] = "\"") \/ IsDigit(l[1])
              THEN r = Err("IllegalSymbol", l)
              ELSE r = Ok(Data(Symbol(l)))
        /\ IsDigit(l[1]) =>
              IF \A i \in 1..Len(l) : IsDigit(l[i])
              THEN r.ok = "Ok" /\ r.v.d.type = "Int"
              ELSE r = Err("IllegalSymbol", l)

\* l is all digits and its value is above usize::MAX
Overflows(l) == l # <<>> /\ AllDigits(l) /\ ~parse_usize(l).ok

\* the index of the first lexeme that does not classify, 0 if all do
FirstUnclassified(ls) ==
    IF \A i \in 1..Len(ls) : from_str(ls[i]).ok = "Ok"
    THEN 0
    ELSE CHOOSE i \in 1..Len(ls) :
            /\ from_str(ls[i]).ok # "Ok"
            /\ \A j \in 1..(i - 1) : from_str(ls[j]).ok = "Ok"

\* peek was called with the cursor past the last token
Exhausted == \E i \in 1..Len(peeked) : peeked[i] >= Len(tokens)

\* how often peek was called with the cursor at k
PeekCount(k) == Cardinality({i \in 1..Len(peeked) : peeked[i] = k})

\* the innermost frame is read_list (read_vector) and read_form has returned to it
InListStep == pc = "reading" /\ stack # <<>> /\ Top.fn = "read_list" /\ ret # NoResult

InVectorStep == pc = "reading" /\ stack # <<>> /\ Top.fn = "read_vector" /\ ret # NoResult

\* the step ends the innermost container and returns it as a value of type ty
Finalizes(ty) ==
    /\ stack' = Pop
    /\ ret' = Ok(Data([type |-> ty, tokens |-> Top.acc]))
    /\ pos' = pos

\* the step keeps the innermost container open, with the returned token as its
\* new last element and the cursor one further
Retains ==
    /\ Len(stack') = Len(stack)
    /\ stack'[Len(stack)].fn = Top.fn
    /\ stack'[Len(stack)].acc = Append(Top.acc, ret.v)
    /\ pos' = pos + 1

-----------------------------------------------------------------------------
(* Properties *)

\* C1 (as claimed): whenever read_str succeeds on a line with value v, reading the
\* rendering of v succeeds again and returns v.
C1_RoundTrip_AnyText ==
    (pc = "print" /\ result.ok = "Ok") =>
        read_str(data_to_string(result.v)) = Ok(result.v)

\* C1 (amended): whenever read_str succeeds with value v on a line that holds no
\* line feed, reading the rendering of v succeeds again and returns v.
C1_RoundTrip_OneLine ==
    (pc = "print" /\ result.ok = "Ok" /\ ~contains(line, "\n")) =>
        read_str(data_to_string(result.v)) = Ok(result.v)

\* C1 witness: a container with a keyword and a string child was read from a line
\* without line feed whose rendering differs from the line.
C1_Witness ==
    /\ pc = "print"
    /\ result.ok = "Ok"
    /\ ~contains(line, "\n")
    /\ IsContainer(result.v)
    /\ \E i, j \in 1..Len(result.v.tokens) :
          /\ IsData(result.v.tokens[i]) /\ result.v.tokens[i].d.type = "Keyword"
          /\ IsData(result.v.tokens[j]) /\ result.v.tokens[j].d.type = "String"
    /\ data_to_string(result.v) # line

\* C2: for a token sequence that is one properly nested container with closers
\* matching their openers, read_str returns the List or Vector whose children
\* are the Data tokens of its sub-forms in input order, nested containers
\* built by the same rule: flattening the value gives back the token sequence.
C2_ChildrenInOrder ==
    (pc = "print" /\ ProperlyNested(tokens)) =>
        /\ result.ok = "Ok"
        /\ IsContainer(result.v)
        /\ AllData(result.v)
        /\ Flatten(Data(result.v)) = tokens

\* C2 witness: a properly nested container holding a nested container and an atom.
C2_Witness ==
    /\ pc = "print"
    /\ ProperlyNested(tokens)
    /\ result.ok = "Ok"
    /\ Len(result.v.tokens) >= 2
    /\ \E i \in 1..Len(result.v.tokens) : IsContainer(result.v.tokens[i].d)
    /\ \E i \in 1..Len(result.v.tokens) : ~IsContainer(result.v.tokens[i].d)

\* C3: every container of a value read_str returned renders as its opening
\* bracket, the renderings of all its children in order with exactly one space
\* between them, and its closing bracket; no child renders as the empty text,
\* so the empty-string filter drops nothing, whatever separated the lexemes.
C3_RenderSpacing ==
    (pc \in {"print", "printed"} /\ result.ok = "Ok") =>
        /\ RendersAll(result.v)
        /\ pc = "printed" => stdout = data_to_string(result.v)

\* C3 witness: a container with at least two children, read from a line with
\* commas and runs of spaces, was printed.
C3_Witness ==
    /\ pc = "printed"
    /\ result.ok = "Ok"
    /\ IsContainer(result.v)
    /\ Len(result.v.tokens) >= 2
    /\ contains(line, ",")
    /\ \E i \in 1..(Len(line) - 1) : line[i] = " " /\ line[i + 1] = " "

\* C4: the cursor never passes the token count, and once peek was called with
\* the cursor past the last token, no call returns a value any more: read_str
\* returns Err(UnterminatedList) (also for the empty token sequence).
C4_ExhaustedIsUnterminated ==
    /\ pos <= Len(tokens)
    /\ \A i \in 1..Len(peeked) : peeked[i] <= Len(tokens)
    /\ (pc \in {"reading", "print"} /\ Exhausted) =>
          /\ ret \in {NoResult, UnterminatedList}
          /\ pc = "print" => result = UnterminatedList

\* C4 witness: the tokens ran out inside a vector inside a list.
C4_Witness ==
    /\ pc = "print"
    /\ Exhausted
    /\ Len(tokens) >= 3
    /\ tokens[1] = OpenParen
    /\ tokens[2] = OpenBracket
    /\ result = UnterminatedList

C6_OverflowIsTypedError ==
    LET ls == lexer(line)
        bad == FirstUnclassified(ls)
    IN  (pc \notin {"readline", "read_str"} /\ bad # 0 /\ Overflows(ls[bad])) =>
            /\ pc # "panicked"
            /\ result.ok = "Err"

C8_OnlyDataRetained ==
    (pc = "print" /\ result.ok = "Ok") => AllData(result.v)

\* C9 (as claimed): the cursor stays within 0..N and every token index is peeked
\* at most once, the cursor strictly advancing between consecutive peeks, so
\* that a parse makes at most N+1 peeks.
C9_PeekedOnce ==
    /\ pos <= Len(tokens)
    /\ \A i, j \in 1..Len(peeked) : i < j => peeked[i] < peeked[j]
    /\ Len(peeked) <= Len(tokens) + 1

\* C9 (amended): the token sequence is never modified; the cursor starts at 0,
\* never decreases and never exceeds N; peeks follow the cursor, which never
\* moves back between them, and every token index is peeked at most twice
\* (once by read_form, once more by read_atom); the parse makes at most 2N+1
\* peeks, is never stuck and ends with read_str returning.
C9_CursorAndPeeks ==
    /\ pos = 0
    /\ <>(pc = "print")
    /\ [](/\ pos <= Len(tokens)
          /\ \A i \in 1..Len(peeked) : peeked[i] <= pos
          /\ \A i, j \in 1..Len(peeked) : i < j => peeked[i] <= peeked[j]
          /\ \A k \in 0..Len(tokens) : PeekCount(k) <= 2
          /\ Len(peeked) <= 2 * Len(tokens) + 1
          /\ pc = "reading" => ENABLED ReaderStep)
    /\ [][tokens' = tokens /\ pos' >= pos]_vars

\* C9 witness: a parse over at least three tokens returned after peeking some
\* index twice.
C9_Witness ==
    /\ pc = "print"
    /\ Len(tokens) >= 3
    /\ pos >= 2
    /\ \E k \in 0..Len(tokens) : PeekCount(k) = 2

\* C10: when the first complete form ends at token index j (reading the tokens
\* 0..j alone returns a value and leaves the cursor on j), read_str returns that
\* value with the cursor on j whatever tokens follow, and no index above j is
\* ever peeked.
C10_TrailingIgnored ==
    \A j \in 0..(Len(tokens) - 1) :
        LET alone == read_form(SubSeq(tokens, 1, j + 1), 0)
        IN  (alone.res.ok = "Ok" /\ IsData(alone.res.v) /\ alone.pos = j) =>
                /\ \A i \in 1..Len(peeked) : peeked[i] <= j
                /\ pos <= j
                /\ pc = "print" => (result = Ok(alone.res.v.d) /\ pos = j)

\* C10 witness: a list was returned although another form and a stray closing
\* bracket follow it.
C10_Witness ==
    /\ pc = "print"
    /\ result.ok = "Ok"
    /\ result.v.type = "List"
    /\ pos + 3 <= Len(tokens)
    /\ tokens[Len(tokens)] = CloseBracket

====
